---- MODULE Spec2Model ----
(***************************************************************************)
(* Model of docker-credential-acr: the registry validators of package acr, *)
(* the Azure authenticator and the credential helper (Get, Add, Delete,    *)
(* List).  Go strings are sequences of one-character strings.              *)
(***************************************************************************)
EXTENDS Integers, Sequences, FiniteSets, TLC

VARIABLES
    pc,            \* position inside the running operation
    op,            \* the operation running or last completed
    serverURL,     \* the operation's input string
    registryName,  \* Get: the validator's return value
    azureToken,    \* Get: the acquired access token
    tenantID,      \* Get: the tenant passed to the exchange
    calls,         \* collaborator calls made by the operation, in order
    provided,      \* Get: what the identity provider answered
    exchangeArgs,  \* Get: the arguments handed to ExchangeForACRToken
    response,      \* Get: what the exchange endpoint answered
    result,        \* what the operation returned
    env,           \* the process environment: AZURE_TENANT_ID
    other          \* another invocation of the helper, while this one runs

vars == <<pc, op, serverURL, registryName, azureToken, tenantID, calls,
          provided, exchangeArgs, response, result, env, other>>

(***************************************************************************)
(* Bounds of the model.                                                    *)
(***************************************************************************)
\* longest registry name tried (one more than the pattern allows)
MaxNameLen == 51

(***************************************************************************)
(* package strings                                                         *)
(***************************************************************************)
LowerLetters == <<"a","b","c","d","e","f","g","h","i","j","k","l","m",
                  "n","o","p","q","r","s","t","u","v","w","x","y","z">>
UpperLetters == <<"A","B","C","D","E","F","G","H","I","J","K","L","M",
                  "N","O","P","Q","R","S","T","U","V","W","X","Y","Z">>
DigitChars == {"0","1","2","3","4","5","6","7","8","9"}
LowerSet == {LowerLetters[i] : i \in 1..26}
UpperSet == {UpperLetters[i] : i \in 1..26}

IsSpace(c) == c \in {" ", "\t", "\n", "\r"}

ToLowerChar(c) ==
    IF c \in UpperSet
    THEN LowerLetters[CHOOSE i \in 1..26 : UpperLetters[i] = c]
    ELSE c

ToLower(s) == [i \in 1..Len(s) |-> ToLowerChar(s[i])]

SetMin(S) == CHOOSE x \in S : \A y \in S : x <= y
SetMax(S) == CHOOSE x \in S : \A y \in S : x >= y

NonSpaces(s) == {i \in 1..Len(s) : ~IsSpace(s[i])}
Between(s, keep) ==
    IF keep = {} THEN <<>> ELSE SubSeq(s, SetMin(keep), SetMax(keep))
TrimSpace(s) == Between(s, NonSpaces(s))

HasPrefix(s, p) == Len(s) >= Len(p) /\ SubSeq(s, 1, Len(p)) = p
HasSuffix(s, p) ==
    Len(s) >= Len(p) /\ SubSeq(s, Len(s) - Len(p) + 1, Len(s)) = p
TrimPrefix(s, p) == IF HasPrefix(s, p) THEN SubSeq(s, Len(p) + 1, Len(s)) ELSE s
TrimSuffix(s, p) == IF HasSuffix(s, p) THEN SubSeq(s, 1, Len(s) - Len(p)) ELSE s

\* positions at which sub occurs in s
Occurrences(s, sub) ==
    {i \in 1..(Len(s) - Len(sub) + 1) : SubSeq(s, i, i + Len(sub) - 1) = sub}
Contains(s, sub) == Occurrences(s, sub) # {}
ContainsAny(s, chars) == \E i \in 1..Len(s) : s[i] \in chars
\* strings.Index and strings.LastIndex, 1-based, 0 when absent
FirstOf(S) == IF S = {} THEN 0 ELSE SetMin(S)
LastOf(S) == IF S = {} THEN 0 ELSE SetMax(S)
Index(s, sub) == FirstOf(Occurrences(s, sub))
LastIndex(s, sub) == LastOf(Occurrences(s, sub))
\* strings.Cut: the text before and after the first sep, found at i
BeforeAt(s, i) == IF i = 0 THEN s ELSE SubSeq(s, 1, i - 1)
AfterAt(s, i, n) == IF i = 0 THEN <<>> ELSE SubSeq(s, i + n, Len(s))
CutBefore(s, sep) == BeforeAt(s, Index(s, sep))
CutAfter(s, sep) == AfterAt(s, Index(s, sep), Len(sep))

(***************************************************************************)
(* String constants of the program.                                        *)
(***************************************************************************)
ACRDomainSuffix == <<".","a","z","u","r","e","c","r",".","i","o">>
SchemeSeparator == <<":","/","/">>
HttpsPrefix == <<"h","t","t","p","s",":","/","/">>
HttpPrefix == <<"h","t","t","p",":","/","/">>
ACRTokenExchangePath == <<"/","o","a","u","t","h","2","/","e","x","c","h","a","n","g","e">>
NullGUID == "00000000-0000-0000-0000-000000000000"
\* the quantifier {5,50} of ACRRegistryNamePattern
NameMin == 5
NameMax == 50

(***************************************************************************)
(* Errors.  A Go error is a record: the fixed text of its message, the     *)
(* constraint it names, the value it quotes and the error it wraps.        *)
(***************************************************************************)
NoCause == [msg |-> "", detail |-> "", got |-> <<>>]
Errorf(msg, detail, got) == [msg |-> msg, detail |-> detail, got |-> got]
NoErr == [msg |-> "", detail |-> "", got |-> <<>>, cause |-> NoCause]
Plain(e) == [msg |-> e.msg, detail |-> e.detail, got |-> e.got, cause |-> NoCause]
Wrap(msg, e) == [msg |-> msg, detail |-> "", got |-> <<>>, cause |-> e]

(***************************************************************************)
(* net/url as used by normalizeRegistryHost: url.Parse, URL.Hostname and   *)
(* URL.Port.  Percent escapes and bracketed IPv6 literals are outside the  *)
(* alphabet of the inputs tried.                                           *)
(***************************************************************************)
IsLetter(c) == c \in LowerSet \/ c \in UpperSet
IsAlnum(c) == IsLetter(c) \/ c \in DigitChars

\* getScheme: (scheme, rest) or the error "missing protocol scheme"; k is the
\* first byte that ends the scan, 0 when the scan reaches the end
SchemeStops(rawURL) ==
    {i \in 1..Len(rawURL) :
        /\ ~IsLetter(rawURL[i])
        /\ (i = 1 \/ rawURL[i] \notin (DigitChars \cup {"+", "-", "."}))}
getSchemeAt(rawURL, k) ==
    IF k = 0 \/ rawURL[k] # ":"
    THEN [err |-> FALSE, scheme |-> <<>>, rest |-> rawURL]
    ELSE IF k = 1
    THEN [err |-> TRUE, scheme |-> <<>>, rest |-> <<>>]
    ELSE [err |-> FALSE, scheme |-> SubSeq(rawURL, 1, k - 1),
          rest |-> SubSeq(rawURL, k + 1, Len(rawURL))]
getScheme(rawURL) == getSchemeAt(rawURL, FirstOf(SchemeStops(rawURL)))

validOptionalPort(port) ==
    \/ port = <<>>
    \/ /\ port[1] = ":"
       /\ \A i \in 2..Len(port) : port[i] \in DigitChars

\* shouldEscape(c, encodeHost) is false
ValidHostChar(c) ==
    \/ IsAlnum(c)
    \/ c \in {"!", "$", "&", "'", "(", ")", "*", "+", ",", ";", "=", ":",
              "[", "]", "<", ">", "\"", "-", "_", ".", "~"}

ValidUserinfoChar(c) ==
    \/ IsAlnum(c)
    \/ c \in {"-", ".", "_", ":", "~", "!", "$", "&", "'", "(", ")", "*",
              "+", ",", ";", "=", "%", "@"}

\* the text of host from its last colon on, empty without a colon
ColonPortAt(host, i) == IF i = 0 THEN <<>> ELSE SubSeq(host, i, Len(host))
ColonPort(host) == ColonPortAt(host, LastIndex(host, <<":">>))

\* parseHost: TRUE when the host is rejected
parseHostFails(host) ==
    \/ ~validOptionalPort(ColonPort(host))
    \/ \E i \in 1..Len(host) : ~ValidHostChar(host[i])

\* parseAuthority: (user # nil, host) or an error
parseAuthorityParts(host, hasUser, userinfo) ==
    IF parseHostFails(host)
    THEN [err |-> TRUE, User |-> FALSE, Host |-> <<>>]
    ELSE IF ~hasUser
    THEN [err |-> FALSE, User |-> FALSE, Host |-> host]
    ELSE IF \E j \in 1..Len(userinfo) : ~ValidUserinfoChar(userinfo[j])
    THEN [err |-> TRUE, User |-> FALSE, Host |-> <<>>]
    ELSE [err |-> FALSE, User |-> TRUE, Host |-> host]
\* i is the last "@" of the authority, 0 without one
parseAuthorityAt(authority, i) ==
    parseAuthorityParts(IF i = 0 THEN authority ELSE AfterAt(authority, i, 1),
                        i # 0, BeforeAt(authority, i))
parseAuthority(authority) ==
    parseAuthorityAt(authority, LastIndex(authority, <<"@">>))

URLError == [err |-> TRUE, Scheme |-> <<>>, User |-> FALSE, Host |-> <<>>,
             Path |-> <<>>, RawQuery |-> <<>>, Fragment |-> <<>>]

\* the URL once user and host are parsed
urlWithAuthority(scheme, auth, path, query) ==
    IF auth.err THEN URLError
    ELSE [err |-> FALSE, Scheme |-> scheme, User |-> auth.User,
          Host |-> auth.Host, Path |-> path, RawQuery |-> query,
          Fragment |-> <<>>]

\* the path that follows the authority: from its first "/" on
PathAt(afterSlashes, i) ==
    IF i = 0 THEN <<>> ELSE SubSeq(afterSlashes, i, Len(afterSlashes))

\* parse, after the "//": authority and path
urlParseAuthority(scheme, afterSlashes, query) ==
    urlWithAuthority(scheme,
                     parseAuthority(CutBefore(afterSlashes, <<"/">>)),
                     PathAt(afterSlashes, Index(afterSlashes, <<"/">>)),
                     query)

\* parse, after scheme and query are cut off
urlParseRest(scheme, rest, query) ==
    IF ~HasPrefix(rest, <<"/">>) /\ scheme # <<>>
    THEN \* a rootless path is opaque: no host, no path
         [URLError EXCEPT !.err = FALSE, !.Scheme = scheme, !.RawQuery = query]
    ELSE IF ~HasPrefix(rest, <<"/">>) /\ Contains(CutBefore(rest, <<"/">>), <<":">>)
    THEN URLError  \* first path segment in URL cannot contain colon
    ELSE IF /\ HasPrefix(rest, <<"/", "/">>)
            /\ (scheme # <<>> \/ ~HasPrefix(rest, <<"/", "/", "/">>))
    THEN urlParseAuthority(scheme, SubSeq(rest, 3, Len(rest)), query)
    ELSE [err |-> FALSE, Scheme |-> scheme, User |-> FALSE, Host |-> <<>>,
          Path |-> rest, RawQuery |-> query, Fragment |-> <<>>]

\* a lone trailing "?" is an empty query (ForceQuery)
ForceQuery(rest) ==
    HasSuffix(rest, <<"?">>) /\ Cardinality(Occurrences(rest, <<"?">>)) = 1
BeforeQuery(rest) ==
    IF ForceQuery(rest) THEN SubSeq(rest, 1, Len(rest) - 1)
    ELSE CutBefore(rest, <<"?">>)
QueryOf(rest) == IF ForceQuery(rest) THEN <<>> ELSE CutAfter(rest, <<"?">>)

urlParseScheme(sch) ==
    IF sch.err THEN URLError
    ELSE urlParseRest(ToLower(sch.scheme), BeforeQuery(sch.rest), QueryOf(sch.rest))

\* parse(rawURL, false): everything before the fragment
urlParseNoFragment(u) ==
    IF u = <<"*">>
    THEN [URLError EXCEPT !.err = FALSE, !.Path = u]
    ELSE urlParseScheme(getScheme(u))

urlWithFragment(parsed, frag) ==
    IF parsed.err THEN parsed ELSE [parsed EXCEPT !.Fragment = frag]

\* url.Parse
urlParse(rawURL) ==
    urlWithFragment(urlParseNoFragment(CutBefore(rawURL, <<"#">>)),
                    CutAfter(rawURL, <<"#">>))

\* splitHostPort, behind URL.Hostname and URL.Port; i is the last colon
splitHostPortAt(hostport, i) ==
    IF i # 0 /\ validOptionalPort(SubSeq(hostport, i, Len(hostport)))
    THEN [host |-> SubSeq(hostport, 1, i - 1),
          port |-> SubSeq(hostport, i + 1, Len(hostport))]
    ELSE [host |-> hostport, port |-> <<>>]
splitHostPort(hostport) == splitHostPortAt(hostport, LastIndex(hostport, <<":">>))
urlHostname(hostport) == splitHostPort(hostport).host
urlPort(hostport) == splitHostPort(hostport).port

(***************************************************************************)
(* The registry validator with ParseAndNormalize.                          *)
(***************************************************************************)
\* a pattern without the upper limit of 50 characters, ^[a-z0-9]{5,}$
MatchLowerNamePatternNoMax(name) ==
    /\ Len(name) >= NameMin
    /\ \A i \in 1..Len(name) : name[i] \in LowerSet \/ name[i] \in DigitChars

\* ACRRegistryNamePattern ^[a-z0-9]{5,50}$
MatchLowerNamePattern(name) ==
    /\ Len(name) >= NameMin
    /\ Len(name) <= NameMax
    /\ \A i \in 1..Len(name) : name[i] \in LowerSet \/ name[i] \in DigitChars

HostOk(host) == [err |-> NoCause, host |-> host]
HostErr(detail) ==
    [err |-> Errorf("invalid registry URL", detail, <<>>), host |-> <<>>]

\* the "://" branch without its checks of port, query, fragment and user info
HostFromURLAllowingPorts(parsed) ==
    IF parsed.err THEN HostErr("parse error")
    ELSE IF parsed.Host = <<>> THEN HostErr("missing host")
    ELSE IF parsed.Path # <<>> /\ parsed.Path # <<"/">>
    THEN HostErr("paths are not allowed")
    ELSE HostOk(TrimSuffix(urlHostname(parsed.Host), <<".">>))

\* normalizeRegistryHost, the branch of a string with "://"
HostFromURL(parsed) ==
    IF parsed.err THEN HostErr("parse error")
    ELSE IF parsed.Host = <<>> THEN HostErr("missing host")
    ELSE IF urlPort(parsed.Host) # <<>> THEN HostErr("ports are not allowed")
    ELSE IF parsed.Path # <<>> /\ parsed.Path # <<"/">>
    THEN HostErr("paths are not allowed")
    ELSE IF parsed.RawQuery # <<>> \/ parsed.Fragment # <<>> \/ parsed.User
    THEN HostErr("query, fragment, and user info are not allowed")
    ELSE HostOk(TrimSuffix(urlHostname(parsed.Host), <<".">>))

\* normalizeRegistryHost, the branch of a bare host
HostFromBare(trimmed) ==
    IF ContainsAny(trimmed, {"/", "?", "#"})
    THEN HostErr("paths, query, and fragment are not allowed")
    ELSE IF Contains(trimmed, <<":">>) THEN HostErr("ports are not allowed")
    ELSE IF Contains(trimmed, <<"@">>) THEN HostErr("user info is not allowed")
    ELSE HostOk(TrimSuffix(trimmed, <<".">>))

normalizeRegistryHost(raw) ==
    IF Contains(raw, SchemeSeparator)
    THEN HostFromURL(urlParse(raw))
    ELSE HostFromBare(TrimSuffix(raw, <<"/">>))

Validated(host, name) == [host |-> host, registryName |-> name, err |-> NoErr]
Rejected(e) == [host |-> <<>>, registryName |-> <<>>, err |-> Plain(e)]

\* a validator that takes every name in front of the suffix
CheckNameAcceptingAny(host, name) == Validated(host, name)

\* ParseAndNormalize: the registry name against the pattern
CheckName(host, name) ==
    IF ~MatchLowerNamePattern(name)
    THEN Rejected(Errorf("invalid ACR registry name",
                         "must be 5-50 alphanumeric characters", name))
    ELSE Validated(host, name)

\* the host checked against the name pattern alone, the suffix test skipped
CheckHostNameFirst(norm) ==
    IF norm.err # NoCause THEN Rejected(norm.err)
    ELSE CheckName(norm.host, TrimSuffix(norm.host, ACRDomainSuffix))

\* ParseAndNormalize: the host against the domain suffix
CheckHost(norm) ==
    IF norm.err # NoCause THEN Rejected(norm.err)
    ELSE IF ~HasSuffix(norm.host, ACRDomainSuffix)
    THEN Rejected(Errorf("not an ACR registry", "URL must end with .azurecr.io",
                         norm.host))
    ELSE CheckName(norm.host, TrimSuffix(norm.host, ACRDomainSuffix))

\* ParseAndNormalize, from the trimmed lower-case string on
NormalizeRaw(raw) ==
    IF raw = <<>>
    THEN Rejected(Errorf("registry URL is empty", "", <<>>))
    ELSE CheckHost(normalizeRegistryHost(raw))

\* a validator that keeps the case of its input
ParseAndNormalizeCaseSensitive(url) == NormalizeRaw(TrimSpace(url))

\* ParseAndNormalize: lower-case, trim, then the checks above
ParseAndNormalize(url) == NormalizeRaw(TrimSpace(ToLower(url)))

\* a test of the suffix alone, after lower-casing and trimming
IsACRRegistryBySuffix(url) ==
    HasSuffix(TrimSuffix(TrimSpace(ToLower(url)), <<"/">>), ACRDomainSuffix)

\* IsACRRegistry of the same validator
IsACRRegistry(url) == ParseAndNormalize(url).err = NoErr

(***************************************************************************)
(* The registry validator of acr/registry.go, the one Get calls.           *)
(***************************************************************************)
\* ACRRegistryNamePattern ^[a-zA-Z0-9]{5,50}$
MatchMixedNamePattern(name) ==
    /\ Len(name) >= NameMin
    /\ Len(name) <= NameMax
    /\ \A i \in 1..Len(name) : IsAlnum(name[i])

\* ValidateAndExtract: the registry name against the pattern
ExtractName(name) ==
    IF ~MatchMixedNamePattern(name)
    THEN [registryName |-> <<>>,
          err |-> Plain(Errorf("invalid ACR registry name",
                               "must be 5-50 alphanumeric characters", name))]
    ELSE [registryName |-> name, err |-> NoErr]

\* ValidateAndExtract, once scheme and trailing slash are removed
ValidateStripped(stripped) ==
    IF ~HasSuffix(stripped, ACRDomainSuffix)
    THEN [registryName |-> <<>>,
          err |-> Plain(Errorf("not an ACR registry",
                               "URL must end with .azurecr.io", stripped))]
    ELSE ExtractName(TrimSuffix(stripped, ACRDomainSuffix))

ValidateAndExtract(url) ==
    ValidateStripped(
        TrimSuffix(TrimPrefix(TrimPrefix(url, HttpsPrefix), HttpPrefix), <<"/">>))

\* IsACRRegistry of acr/registry.go: the suffix test alone
IsACRRegistrySuffixOnly(url) ==
    HasSuffix(TrimPrefix(TrimPrefix(url, HttpsPrefix), HttpPrefix), ACRDomainSuffix)

(***************************************************************************)
(* The Azure authenticator.  The identity provider, the JWT parser and the *)
(* registry's HTTP endpoint are collaborators: their answers are inputs.   *)
(***************************************************************************)
\* an access token: its identity and what jwt.ParseUnverified finds in it
Token(id, parses, hasTid, tidIsString, tid) ==
    [id |-> id, parses |-> parses, hasTid |-> hasTid,
     tidIsString |-> tidIsString, tid |-> tid]
NoToken == Token("", FALSE, FALSE, FALSE, "")
Tokens ==
    { Token("tok-opaque", FALSE, FALSE, FALSE, ""),
      Token("tok-no-tid", TRUE, FALSE, FALSE, ""),
      Token("tok-numeric-tid", TRUE, TRUE, FALSE, ""),
      Token("tok-empty-tid", TRUE, TRUE, TRUE, ""),
      Token("tok-tenant-a", TRUE, TRUE, TRUE, "tenant-a"),
      Token("tok-tenant-b", TRUE, TRUE, TRUE, "tenant-b") }

\* what azidentity answers: no credential, no token, or a token
ProviderAnswers ==
    { [kind |-> "credentialError", cause |-> "no credential providers found",
       token |-> NoToken],
      [kind |-> "tokenError", cause |-> "context deadline exceeded",
       token |-> NoToken] }
    \cup { [kind |-> "token", cause |-> "", token |-> t] : t \in Tokens }

GetAzureAccessToken(answer) ==
    IF answer.kind = "credentialError"
    THEN [token |-> NoToken,
          err |-> Errorf("failed to create Azure credential", answer.cause, <<>>)]
    ELSE IF answer.kind = "tokenError"
    THEN [token |-> NoToken,
          err |-> Errorf("failed to get Azure access token", answer.cause, <<>>)]
    ELSE [token |-> answer.token, err |-> NoCause]

\* a tenant resolution without the test for an empty tid
ExtractTenantIDAllowingEmpty(token) ==
    IF ~token.parses
    THEN [tenantID |-> "", err |-> Errorf("failed to parse JWT", token.id, <<>>)]
    ELSE IF ~token.hasTid
    THEN [tenantID |-> "", err |-> Errorf("tid claim not found in token", "", <<>>)]
    ELSE IF ~token.tidIsString
    THEN [tenantID |-> "", err |-> Errorf("tid claim is not a string", "", <<>>)]
    ELSE [tenantID |-> token.tid, err |-> NoCause]

\* AzureAuthenticator.ExtractTenantIDFromToken
ExtractTenantIDFromToken(token) ==
    IF ~token.parses
    THEN [tenantID |-> "", err |-> Errorf("failed to parse JWT", token.id, <<>>)]
    ELSE IF ~token.hasTid
    THEN [tenantID |-> "", err |-> Errorf("tid claim not found in token", "", <<>>)]
    ELSE IF ~token.tidIsString
    THEN [tenantID |-> "", err |-> Errorf("tid claim is not a string", "", <<>>)]
    ELSE IF token.tid = ""
    THEN [tenantID |-> "", err |-> Errorf("tid claim is empty", "", <<>>)]
    ELSE [tenantID |-> token.tid, err |-> NoCause]

\* http.StatusOK
StatusOK == 200

\* a response body: its raw text and what json.Decode makes of it
Body(raw, isJSON, field, value) ==
    [raw |-> raw, isJSON |-> isJSON, field |-> field, value |-> value]
HTTPAnswers ==
    { [kind |-> "transportError", status |-> 0,
       body |-> Body("connection refused", FALSE, "absent", "")],
      [kind |-> "response", status |-> 401,
       body |-> Body("unauthorized", FALSE, "absent", "")],
      [kind |-> "response", status |-> 500,
       body |-> Body("{\"refresh_token\":\"rt-from-500\"}", TRUE, "string", "rt-from-500")],
      [kind |-> "response", status |-> StatusOK,
       body |-> Body("<html>", FALSE, "absent", "")],
      [kind |-> "response", status |-> StatusOK,
       body |-> Body("{}", TRUE, "absent", "")],
      [kind |-> "response", status |-> StatusOK,
       body |-> Body("{\"refresh_token\":7}", TRUE, "number", "")],
      [kind |-> "response", status |-> StatusOK,
       body |-> Body("{\"refresh_token\":\"\"}", TRUE, "string", "")],
      [kind |-> "response", status |-> StatusOK,
       body |-> Body("{\"refresh_token\":\"rt-123\"}", TRUE, "string", "rt-123")],
      [kind |-> "response", status |-> StatusOK,
       body |-> Body("{\"refresh_token\":\"rt-456\"}", TRUE, "string", "rt-456")] }

\* ACRTokenResponse.RefreshToken after json.Decode
DecodedRefreshToken(body) == IF body.field = "string" THEN body.value ELSE ""

\* an exchange without the test for an empty refresh_token
ExchangeResultAllowingEmpty(answer) ==
    IF answer.kind = "transportError"
    THEN [token |-> "",
          err |-> Errorf("token exchange request failed", answer.body.raw, <<>>)]
    ELSE IF answer.status # StatusOK
    THEN [token |-> "",
          err |-> Errorf("ACR token exchange failed with status",
                         ToString(answer.status), <<answer.body.raw>>)]
    ELSE IF ~answer.body.isJSON \/ answer.body.field = "number"
    THEN [token |-> "",
          err |-> Errorf("failed to parse ACR token response", answer.body.raw, <<>>)]
    ELSE [token |-> DecodedRefreshToken(answer.body), err |-> NoCause]

\* an exchange that reads the body whatever the status
ExchangeResultIgnoringStatus(answer) ==
    IF answer.kind = "transportError"
    THEN [token |-> "",
          err |-> Errorf("token exchange request failed", answer.body.raw, <<>>)]
    ELSE IF ~answer.body.isJSON \/ answer.body.field = "number"
    THEN [token |-> "",
          err |-> Errorf("failed to parse ACR token response", answer.body.raw, <<>>)]
    ELSE IF DecodedRefreshToken(answer.body) = ""
    THEN [token |-> "",
          err |-> Errorf("ACR token exchange returned empty refresh_token", "", <<>>)]
    ELSE [token |-> DecodedRefreshToken(answer.body), err |-> NoCause]

\* ExchangeForACRToken from the HTTP answer on
ExchangeResult(answer) ==
    IF answer.kind = "transportError"
    THEN [token |-> "",
          err |-> Errorf("token exchange request failed", answer.body.raw, <<>>)]
    ELSE IF answer.status # StatusOK
    THEN [token |-> "",
          err |-> Errorf("ACR token exchange failed with status",
                         ToString(answer.status), <<answer.body.raw>>)]
    ELSE IF ~answer.body.isJSON \/ answer.body.field = "number"
    THEN [token |-> "",
          err |-> Errorf("failed to parse ACR token response", answer.body.raw, <<>>)]
    ELSE IF DecodedRefreshToken(answer.body) = ""
    THEN [token |-> "",
          err |-> Errorf("ACR token exchange returned empty refresh_token", "", <<>>)]
    ELSE [token |-> DecodedRefreshToken(answer.body), err |-> NoCause]

\* the request ExchangeForACRToken builds
ExchangeRequest(registryHost, tenant, token) ==
    [method |-> "POST",
     url |-> HttpsPrefix \o registryHost \o ACRTokenExchangePath,
     contentType |-> "application/x-www-form-urlencoded",
     grant_type |-> "access_token",
     service |-> registryHost,
     tenant |-> tenant,
     access_token |-> token]

(***************************************************************************)
(* Errors of package acr.                                                  *)
(***************************************************************************)
NewMissingTenantIDError ==
    Plain(Errorf("Unable to determine tenant ID",
                 "Please set AZURE_TENANT_ID to your Azure tenant ID.", <<>>))
NewNotImplementedError(operation) ==
    Plain(Errorf("operation is not implemented by docker-credential-acr",
                 operation, <<>>))
WrapAzureAuthError(e) == Wrap("Azure authentication failed", e)
WrapACRTokenExchangeError(e) == Wrap("ACR token exchange failed", e)

(***************************************************************************)
(* The inputs tried.                                                       *)
(***************************************************************************)
Fill(c, n) == [i \in 1..n |-> c]
NameLens == {0, NameMin - 1, NameMin, NameMax} \cup ((NameMax + 1)..MaxNameLen)
Names ==
    { Fill("a", n) : n \in NameLens }
    \cup { Fill("A", NameMin), Fill("7", NameMax) }
    \cup {<<"m","y","r","e","g">>, <<"M","y","R","e","g">>, <<"m","y","-","r","e","g">>, <<"m","y","_","r","e","g">>, <<"m","y",".","r","e","g">>, <<"m","y"," ","r","e","g">>, <<"r","e","g","i","s","t","r","y","0","1">>}
NameSchemes == {<<>>, <<"h","t","t","p","s",":","/","/">>, <<"H","T","T","P",":","/","/">>}
NameDomains == {<<".","a","z","u","r","e","c","r",".","i","o">>, <<".","A","z","u","r","e","C","R",".","I","O">>, <<".","d","o","c","k","e","r",".","i","o">>, <<>>}
NameTails == {<<>>, <<"/">>, <<".">>}
Pads == {<<>>, <<" ">>}
NameInputs ==
    { pad \o scheme \o name \o dom \o tail \o pad :
        pad \in Pads, scheme \in NameSchemes, name \in Names,
        dom \in NameDomains, tail \in NameTails }

ShapeSchemes == {<<>>, <<"h","t","t","p","s",":","/","/">>, <<"h","t","t","p",":","/","/">>, <<"H","t","t","p","s",":","/","/">>, <<"f","t","p",":","/","/">>, <<":","/","/">>, <<"1","x",":","/","/">>}
ShapeUsers == {<<>>, <<"u","@">>, <<"@">>, <<"u",":","p","@">>}
ShapeNames == {<<"m","y","r","e","g">>, <<"a","b">>}
ShapeDomains == {<<".","a","z","u","r","e","c","r",".","i","o">>, <<".","d","o","c","k","e","r",".","i","o">>}
ShapePorts == {<<>>, <<":","4","4","3">>, <<":">>, <<":","x">>}
ShapeTails == {<<>>, <<"/">>, <<"/","/">>, <<"/","v","2">>, <<"?">>, <<"?","q","=","1">>, <<"#">>, <<"#","f","r","a","g">>, <<".">>}
ShapeInputs ==
    { scheme \o user \o name \o dom \o port \o tail :
        scheme \in ShapeSchemes, user \in ShapeUsers, name \in ShapeNames,
        dom \in ShapeDomains, port \in ShapePorts, tail \in ShapeTails }

Inputs == NameInputs \cup ShapeInputs

\* AZURE_TENANT_ID as the process finds it
EnvValues == {"", "tenant-env"}
\* the server URLs handed to Add and Delete
StoreInputs == {<<>>, <<"m","y","r","e","g",".","a","z","u","r","e","c","r",".","i","o">>, <<"g","c","r",".","i","o">>}

(***************************************************************************)
(* The state machine.  One operation runs at a time; Get stops at each     *)
(* call of a collaborator, whose answer is the next step's input.          *)
(***************************************************************************)
NoArgs == [registryName |-> <<>>, serverURL |-> <<>>, tenantID |-> "",
           azureToken |-> NoToken]
NoResult == [err |-> NoErr]
NoAnswer == [kind |-> "none", cause |-> "", token |-> NoToken]
NoResponse == [kind |-> "none", status |-> 0, body |-> Body("", FALSE, "absent", "")]
Credentials(username, secret, err) ==
    [username |-> username, secret |-> secret, err |-> err]

Ready == pc = "ready"

\* an invocation: the locals of the running operation and what it has seen
Frame(p, o, url, name, token, tenant, called, answer, args, resp, res, environment) ==
    [pc |-> p, op |-> o, serverURL |-> url, registryName |-> name,
     azureToken |-> token, tenantID |-> tenant, calls |-> called,
     provided |-> answer, exchangeArgs |-> args, response |-> resp,
     result |-> res, env |-> environment]
\* an invocation that has not read its command yet
NewFrame ==
    Frame("ready", "none", <<>>, <<>>, NoToken, "", <<>>, NoAnswer, NoArgs,
          NoResponse, NoResult, "")

Init ==
    /\ other = NewFrame
    /\ pc = "ready"
    /\ op = "none"
    /\ serverURL = <<>>
    /\ registryName = <<>>
    /\ azureToken = NoToken
    /\ tenantID = ""
    /\ calls = <<>>
    /\ exchangeArgs = NoArgs
    /\ provided = NoAnswer
    /\ response = NoResponse
    /\ result = NoResult
    /\ env = ""

\* RegistryValidator.ParseAndNormalize called on its own
Normalize(url) ==
    /\ Ready
    /\ pc' = "done"
    /\ op' = "Normalize"
    /\ serverURL' = url
    /\ result' = ParseAndNormalize(url)
    /\ registryName' = <<>>
    /\ azureToken' = NoToken
    /\ tenantID' = ""
    /\ calls' = <<>>
    /\ exchangeArgs' = NoArgs
    /\ provided' = NoAnswer
    /\ response' = NoResponse
    /\ env' = ""
    /\ UNCHANGED other

\* a step 1 that wraps the validator's error as an authentication failure
GetValidatedWrappingError(url, v) ==
    /\ Ready
    /\ op' = "Get"
    /\ serverURL' = url
    /\ calls' = <<"ValidateAndExtract">>
    /\ registryName' = v.registryName
    /\ pc' = IF v.err # NoErr THEN "done" ELSE "validated"
    /\ result' = IF v.err # NoErr
                 THEN Credentials("", "", WrapAzureAuthError(v.err))
                 ELSE NoResult
    /\ azureToken' = NoToken
    /\ tenantID' = ""
    /\ exchangeArgs' = NoArgs
    /\ provided' = NoAnswer
    /\ response' = NoResponse
    /\ env' = ""
    /\ UNCHANGED other

\* ACRHelper.Get, step 1: validate the server URL; v is the validator's answer
GetValidated(url, v) ==
    /\ Ready
    /\ op' = "Get"
    /\ serverURL' = url
    /\ calls' = <<"ValidateAndExtract">>
    /\ registryName' = v.registryName
    /\ pc' = IF v.err # NoErr THEN "done" ELSE "validated"
    /\ result' = IF v.err # NoErr THEN Credentials("", "", v.err) ELSE NoResult
    /\ azureToken' = NoToken
    /\ tenantID' = ""
    /\ exchangeArgs' = NoArgs
    /\ provided' = NoAnswer
    /\ response' = NoResponse
    /\ env' = ""
    /\ UNCHANGED other
GetValidate(url) == GetValidated(url, ValidateAndExtract(url))

\* a step 2 that goes on to the tenant whatever the authenticator answered
GetAcquiredIgnoringError(answer, got) ==
    /\ pc = "validated"
    /\ provided' = answer
    /\ calls' = Append(calls, "GetAzureAccessToken")
    /\ pc' = "acquired"
    /\ result' = result
    /\ azureToken' = got.token
    /\ UNCHANGED <<op, serverURL, registryName, tenantID, exchangeArgs, response, env, other>>

\* ACRHelper.Get, step 2: get the Azure access token
GetAcquired(answer, got) ==
    /\ pc = "validated"
    /\ provided' = answer
    /\ calls' = Append(calls, "GetAzureAccessToken")
    /\ pc' = IF got.err # NoCause THEN "done" ELSE "acquired"
    /\ result' = IF got.err # NoCause
                 THEN Credentials("", "", WrapAzureAuthError(got.err))
                 ELSE result
    /\ azureToken' = got.token
    /\ UNCHANGED <<op, serverURL, registryName, tenantID, exchangeArgs, response, env, other>>
GetAcquire(answer) == GetAcquired(answer, GetAzureAccessToken(answer))

\* the tenant Get settles on: the token's, else AZURE_TENANT_ID
UseEnvironment(tid) == tid.err # NoCause \/ tid.tenantID = ""
\* a tenant taken from the environment whenever it is set
TenantForEnvironmentFirst(tid, environment) ==
    IF environment # "" THEN environment ELSE tid.tenantID

TenantFor(tid, environment) ==
    IF UseEnvironment(tid) THEN environment ELSE tid.tenantID

\* a Get that never reports a missing tenant
MissingTenantNever(tid, environment) == FALSE

MissingTenant(tid, environment) == UseEnvironment(tid) /\ environment = ""

\* a step 3 that reads the token a second time before it turns to the
\* environment
GetResolvedRetrying(tid, environment) ==
    /\ pc = "acquired"
    /\ env' = environment
    /\ calls' = IF UseEnvironment(tid)
                THEN calls \o <<"ExtractTenantIDFromToken",
                                "ExtractTenantIDFromToken", "Getenv">>
                ELSE Append(calls, "ExtractTenantIDFromToken")
    /\ tenantID' = TenantFor(tid, environment)
    /\ pc' = IF MissingTenant(tid, environment) THEN "done" ELSE "resolved"
    /\ result' = IF MissingTenant(tid, environment)
                 THEN Credentials("", "", NewMissingTenantIDError)
                 ELSE result
    /\ UNCHANGED <<op, serverURL, registryName, azureToken, provided, exchangeArgs,
                   response, other>>

\* ACRHelper.Get, step 3: the tenant from the token, else from the environment
\* the process runs in
GetResolved(tid, environment) ==
    /\ pc = "acquired"
    /\ env' = environment
    /\ calls' = IF UseEnvironment(tid)
                THEN calls \o <<"ExtractTenantIDFromToken", "Getenv">>
                ELSE Append(calls, "ExtractTenantIDFromToken")
    /\ tenantID' = TenantFor(tid, environment)
    /\ pc' = IF MissingTenant(tid, environment) THEN "done" ELSE "resolved"
    /\ result' = IF MissingTenant(tid, environment)
                 THEN Credentials("", "", NewMissingTenantIDError)
                 ELSE result
    /\ UNCHANGED <<op, serverURL, registryName, azureToken, provided, exchangeArgs,
                   response, other>>
GetResolveTenant(environment) ==
    GetResolved(ExtractTenantIDFromToken(azureToken), environment)

\* steps 4 and 5 returning the Azure access token as the secret
GetExchangedReturnsAccessToken(answer, got) ==
    /\ pc = "resolved"
    /\ response' = answer
    /\ pc' = "done"
    /\ calls' = Append(calls, "ExchangeForACRToken")
    /\ exchangeArgs' = [registryName |-> registryName, serverURL |-> serverURL,
                        tenantID |-> tenantID, azureToken |-> azureToken]
    /\ result' = IF got.err # NoCause
                 THEN Credentials("", "", WrapACRTokenExchangeError(got.err))
                 ELSE Credentials(NullGUID, azureToken.id, NoErr)
    /\ UNCHANGED <<op, serverURL, registryName, azureToken, tenantID, provided, env, other>>

\* steps 4 and 5 with a cache: the credentials another invocation got for
\* the same registry are returned again, without an exchange
GetExchangedReusingToken(answer, got) ==
    /\ pc = "resolved"
    /\ pc' = "done"
    /\ IF other.op = "Get" /\ other.pc = "done" /\ other.result.err = NoErr
          /\ other.serverURL = serverURL
       THEN /\ result' = other.result
            /\ UNCHANGED <<calls, exchangeArgs, response>>
       ELSE /\ response' = answer
            /\ calls' = Append(calls, "ExchangeForACRToken")
            /\ exchangeArgs' = [registryName |-> registryName,
                                serverURL |-> serverURL,
                                tenantID |-> tenantID, azureToken |-> azureToken]
            /\ result' = IF got.err # NoCause
                         THEN Credentials("", "", WrapACRTokenExchangeError(got.err))
                         ELSE Credentials(NullGUID, got.token, NoErr)
    /\ UNCHANGED <<op, serverURL, registryName, azureToken, tenantID, provided, env,
                   other>>

\* ACRHelper.Get, steps 4 and 5: exchange the token, return the credentials
GetExchanged(answer, got) ==
    /\ pc = "resolved"
    /\ response' = answer
    /\ pc' = "done"
    /\ calls' = Append(calls, "ExchangeForACRToken")
    /\ exchangeArgs' = [registryName |-> registryName, serverURL |-> serverURL,
                        tenantID |-> tenantID, azureToken |-> azureToken]
    /\ result' = IF got.err # NoCause
                 THEN Credentials("", "", WrapACRTokenExchangeError(got.err))
                 ELSE Credentials(NullGUID, got.token, NoErr)
    /\ UNCHANGED <<op, serverURL, registryName, azureToken, tenantID, provided, env, other>>
GetExchange(answer) == GetExchanged(answer, ExchangeResult(answer))

\* what Add and Delete return, and the collaborators they call
AddResult == [err |-> NewNotImplementedError("Add")]
\* a Delete that reports success
DeleteResultNil == [err |-> NoErr]
DeleteResult == [err |-> NewNotImplementedError("Delete")]
StoreCalls == <<>>

\* ACRHelper.Add
Add(url) ==
    /\ Ready
    /\ pc' = "done"
    /\ op' = "Add"
    /\ serverURL' = url
    /\ result' = AddResult
    /\ calls' = StoreCalls
    /\ registryName' = <<>>
    /\ azureToken' = NoToken
    /\ tenantID' = ""
    /\ exchangeArgs' = NoArgs
    /\ provided' = NoAnswer
    /\ response' = NoResponse
    /\ env' = ""
    /\ UNCHANGED other

\* ACRHelper.Delete
Delete(url) ==
    /\ Ready
    /\ pc' = "done"
    /\ op' = "Delete"
    /\ serverURL' = url
    /\ result' = DeleteResult
    /\ calls' = StoreCalls
    /\ registryName' = <<>>
    /\ azureToken' = NoToken
    /\ tenantID' = ""
    /\ exchangeArgs' = NoArgs
    /\ provided' = NoAnswer
    /\ response' = NoResponse
    /\ env' = ""
    /\ UNCHANGED other

\* a List that shows the registry another invocation got credentials for
ListShowingEarlier ==
    /\ Ready
    /\ pc' = "done"
    /\ op' = "List"
    /\ serverURL' = <<>>
    /\ result' = [creds |-> IF other.op = "Get" /\ other.pc = "done"
                               /\ other.result.err = NoErr
                            THEN {other.serverURL} ELSE {},
                  err |-> NoErr]
    /\ calls' = <<>>
    /\ registryName' = <<>>
    /\ azureToken' = NoToken
    /\ tenantID' = ""
    /\ exchangeArgs' = NoArgs
    /\ provided' = NoAnswer
    /\ response' = NoResponse
    /\ env' = ""
    /\ UNCHANGED other

\* RegistryValidator.IsACRRegistry called on its own
IsRegistry(url) ==
    /\ Ready
    /\ pc' = "done"
    /\ op' = "IsACRRegistry"
    /\ serverURL' = url
    /\ result' = [ok |-> IsACRRegistry(url), err |-> NoErr]
    /\ calls' = <<>>
    /\ registryName' = <<>>
    /\ azureToken' = NoToken
    /\ tenantID' = ""
    /\ exchangeArgs' = NoArgs
    /\ provided' = NoAnswer
    /\ response' = NoResponse
    /\ env' = ""
    /\ UNCHANGED other

\* ACRHelper.List
List ==
    /\ Ready
    /\ pc' = "done"
    /\ op' = "List"
    /\ serverURL' = <<>>
    /\ result' = [creds |-> {}, err |-> NoErr]
    /\ calls' = <<>>
    /\ registryName' = <<>>
    /\ azureToken' = NoToken
    /\ tenantID' = ""
    /\ exchangeArgs' = NoArgs
    /\ provided' = NoAnswer
    /\ response' = NoResponse
    /\ env' = ""
    /\ UNCHANGED other

\* the response is written and the process ends: the next command is served
\* by a new process, which holds nothing of this one
Exit ==
    /\ pc = "done"
    /\ pc' = "ready"
    /\ op' = "none"
    /\ serverURL' = <<>>
    /\ registryName' = <<>>
    /\ azureToken' = NoToken
    /\ tenantID' = ""
    /\ calls' = <<>>
    /\ exchangeArgs' = NoArgs
    /\ provided' = NoAnswer
    /\ response' = NoResponse
    /\ result' = NoResult
    /\ env' = ""
    /\ UNCHANGED other

\* the scheduler turns to the other invocation: each invocation keeps its own
\* locals, and the helper's fields are not written after NewACRHelper
Switch ==
    /\ other' = Frame(pc, op, serverURL, registryName, azureToken, tenantID,
                      calls, provided, exchangeArgs, response, result, env)
    /\ pc' = other.pc
    /\ op' = other.op
    /\ serverURL' = other.serverURL
    /\ registryName' = other.registryName
    /\ azureToken' = other.azureToken
    /\ tenantID' = other.tenantID
    /\ calls' = other.calls
    /\ provided' = other.provided
    /\ exchangeArgs' = other.exchangeArgs
    /\ response' = other.response
    /\ result' = other.result
    /\ env' = other.env

Next ==
    \/ \E url \in Inputs : Normalize(url)
    \/ \E url \in Inputs : IsRegistry(url)
    \/ \E url \in Inputs : GetValidate(url)
    \/ \E answer \in ProviderAnswers : GetAcquire(answer)
    \/ \E environment \in EnvValues : GetResolveTenant(environment)
    \/ \E answer \in HTTPAnswers : GetExchange(answer)
    \/ \E url \in StoreInputs : Add(url)
    \/ \E url \in StoreInputs : Delete(url)
    \/ List
    \/ Exit

Spec == Init /\ [][Next]_vars

\* two invocations of the helper at once, their steps interleaved
PairInputs ==
    {<<"m","y","r","e","g",".","a","z","u","r","e","c","r",".","i","o">>,
     <<"h","t","t","p","s",":","/","/","r","e","g","i","s","t","r","y","0","1",".","a","z","u","r","e","c","r",".","i","o">>,
     <<"g","c","r",".","i","o">>}
NextPair ==
    \/ \E url \in PairInputs : GetValidate(url)
    \/ \E answer \in ProviderAnswers : GetAcquire(answer)
    \/ \E environment \in EnvValues : GetResolveTenant(environment)
    \/ \E answer \in HTTPAnswers : GetExchange(answer)
    \/ List
    \/ Exit
    \/ Switch

SpecPair == Init /\ [][NextPair]_vars

(***************************************************************************)
(* Properties.                                                             *)
(***************************************************************************)
GetDone == op = "Get" /\ pc = "done"
NormalizeDone == op = "Normalize" /\ pc = "done"
Called(name) == \E i \in 1..Len(calls) : calls[i] = name
\* the input as ParseAndNormalize first reads it
RawInput == TrimSpace(ToLower(serverURL))

\* C1: a Get that ends in success returns the null GUID as username and, as
\* secret, the refresh token the exchange endpoint answered in this request
C1_GetSuccessReturnsRefreshToken ==
    (GetDone /\ result.err = NoErr) =>
        /\ result.username = "00000000-0000-0000-0000-000000000000"
        /\ response.kind = "response"
        /\ response.body.field = "string"
        /\ result.secret = response.body.value
        /\ Called("ExchangeForACRToken")
C1_Witness ==
    /\ GetDone
    /\ result.err = NoErr
    /\ result.secret = "rt-456"
    /\ HasPrefix(serverURL, HttpsPrefix)
    /\ azureToken.id = "tok-no-tid"

\* the suffix occurs nowhere in the input, in no letter case
NowhereSuffix(url) == ~Contains(ToLower(url), <<".","a","z","u","r","e","c","r",".","i","o">>)
\* the input with case, outer space, one trailing slash and one trailing dot
\* taken off does not end with the suffix
Unadorned(url) ==
    TrimSuffix(TrimSuffix(TrimSpace(ToLower(url)), <<"/">>), <<".">>)
LacksSuffix(url) == ~HasSuffix(Unadorned(url), <<".","a","z","u","r","e","c","r",".","i","o">>)
\* the host ParseAndNormalize works on, when the input has one
WorkingHost == normalizeRegistryHost(RawInput)
HasWorkingHost == RawInput # <<>> /\ WorkingHost.err = NoCause

\* C2 as stated: every input that lacks the suffix .azurecr.io fails in
\* ParseAndNormalize with "not an ACR registry", and in Get too
C2_EveryInputLackingSuffixIsNotRegistryDomain ==
    ((NormalizeDone \/ GetDone) /\ NowhereSuffix(serverURL)) =>
        result.err.msg = "not an ACR registry"

\* C2 amended: ParseAndNormalize fails with "not an ACR registry" for every
\* input that has a working host (not empty, well-formed) lacking the suffix,
\* and with "registry URL is empty" or "invalid registry URL" for the other
\* inputs in which the suffix occurs nowhere; Get fails with "not an ACR
\* registry" for every input lacking the suffix
C2_WorkingHostLackingSuffixIsNotRegistryDomain ==
    /\ (NormalizeDone /\ HasWorkingHost
            /\ ~HasSuffix(WorkingHost.host, <<".","a","z","u","r","e","c","r",".","i","o">>)) =>
          /\ result.err.msg = "not an ACR registry"
          /\ result.err.got = WorkingHost.host
    /\ (NormalizeDone /\ NowhereSuffix(serverURL)) =>
          result.err.msg \in {"registry URL is empty", "invalid registry URL",
                              "not an ACR registry"}
    /\ (GetDone /\ LacksSuffix(serverURL)) =>
          /\ result.err.msg = "not an ACR registry"
          /\ calls = <<"ValidateAndExtract">>
C2_Witness ==
    /\ NormalizeDone
    /\ Contains(RawInput, SchemeSeparator)
    /\ HasWorkingHost
    /\ HasSuffix(WorkingHost.host, <<".","d","o","c","k","e","r",".","i","o">>)
    /\ result.err.msg = "not an ACR registry"

\* the short name of the working host
ShortName == TrimSuffix(WorkingHost.host, <<".","a","z","u","r","e","c","r",".","i","o">>)
FailsNameRule(name) ==
    \/ Len(name) < 5
    \/ Len(name) > 50
    \/ \E i \in 1..Len(name) : name[i] \in UpperSet
    \/ \E i \in 1..Len(name) : name[i] \notin (LowerSet \cup DigitChars)

\* C3: when the short name (the working host minus .azurecr.io) is shorter
\* than 5, longer than 50 or holds a character outside a-z and 0-9,
\* ParseAndNormalize fails with "invalid ACR registry name" naming it; and
\* the pattern itself matches no name that holds an upper-case letter
C3_BadShortNameIsInvalidRegistryName ==
    /\ (NormalizeDone /\ HasWorkingHost
            /\ HasSuffix(WorkingHost.host, <<".","a","z","u","r","e","c","r",".","i","o">>)
            /\ FailsNameRule(ShortName)) =>
                /\ result.err.msg = "invalid ACR registry name"
                /\ result.err.got = ShortName
                /\ result.host = <<>>
    /\ (NormalizeDone /\ \E i \in 1..Len(serverURL) : serverURL[i] \in UpperSet) =>
            ~MatchLowerNamePattern(serverURL)
C3_Witness ==
    /\ NormalizeDone
    /\ HasWorkingHost
    /\ Len(ShortName) > 50
    /\ \A i \in 1..Len(ShortName) : ShortName[i] \in LowerSet
    /\ result.err.msg = "invalid ACR registry name"

\* the parts of a string with "://", read off its text: what follows the
\* first "#", what follows the first "?" before it, and the authority
FragmentText(raw) == CutAfter(raw, <<"#">>)
QueryText(raw) == CutAfter(CutBefore(raw, <<"#">>), <<"?">>)
AuthorityText(raw) ==
    CutBefore(CutBefore(CutBefore(CutAfter(raw, SchemeSeparator), <<"#">>),
                        <<"?">>), <<"/">>)
\* the authority ends in a colon and one digit or more
EndsInPort(authority) ==
    \E i \in 1..(Len(authority) - 1) :
        /\ authority[i] = ":"
        /\ \A j \in (i + 1)..Len(authority) : authority[j] \in DigitChars
HasForbiddenPart(raw) ==
    IF Contains(raw, SchemeSeparator)
    THEN \/ EndsInPort(AuthorityText(raw))
         \/ Contains(AuthorityText(raw), <<"@">>)
         \/ QueryText(raw) # <<>>
         \/ FragmentText(raw) # <<>>
    ELSE ContainsAny(raw, {":", "@", "?", "#"})

\* C4: an input with a port, userinfo, a query or a fragment (with a scheme),
\* or with one of : @ ? # (bare host), fails with "invalid registry URL"
C4_ForbiddenPartIsInvalidURL ==
    (NormalizeDone /\ HasForbiddenPart(RawInput)) =>
        /\ result.err.msg = "invalid registry URL"
        /\ result.host = <<>>
C4_Witness ==
    /\ NormalizeDone
    /\ HasPrefix(RawInput, HttpsPrefix)
    /\ AuthorityText(RawInput) = <<"m","y","r","e","g",".","a","z","u","r","e","c","r",".","i","o",":","4","4","3">>
    /\ result.err.detail = "ports are not allowed"

\* the short name of an input that is name.azurecr.io in any letter case,
\* with or without http:// or https:// and one trailing slash
VariantName(url) ==
    TrimSuffix(TrimSuffix(TrimPrefix(TrimPrefix(TrimSpace(ToLower(url)),
                                                <<"h","t","t","p","s",":","/","/">>),
                                     <<"h","t","t","p",":","/","/">>),
                          <<"/">>),
               <<".","a","z","u","r","e","c","r",".","i","o">>)
IsVariantOfValidName(url) ==
    /\ HasSuffix(TrimSuffix(TrimSpace(ToLower(url)), <<"/">>), <<".","a","z","u","r","e","c","r",".","i","o">>)
    /\ ~FailsNameRule(VariantName(url))

\* C5: every spelling of name.azurecr.io with a valid name (any letter case,
\* http:// or https:// or none, trailing slash or none) normalizes to the
\* lower-case host name.azurecr.io, and normalizing that host returns it
C5_VariantsNormalizeToOneHost ==
    (NormalizeDone /\ IsVariantOfValidName(serverURL)) =>
        /\ result.err = NoErr
        /\ result.registryName = VariantName(serverURL)
        /\ result.host = VariantName(serverURL) \o <<".","a","z","u","r","e","c","r",".","i","o">>
        /\ ParseAndNormalize(result.host) = result
C5_Witness ==
    /\ NormalizeDone
    /\ IsVariantOfValidName(serverURL)
    /\ HasPrefix(serverURL, <<"H","T","T","P",":","/","/">>)
    /\ HasSuffix(serverURL, <<".","A","z","u","r","e","C","R",".","I","O","/">>)
    /\ \E i \in 1..Len(serverURL) : serverURL[i] = "M"
    /\ result.host = <<"m","y","r","e","g",".","a","z","u","r","e","c","r",".","i","o">>

\* C6: when the identity provider gives no token, Get ends with "Azure
\* authentication failed" around the provider's cause, without reading the
\* tenant, the environment or calling the exchange
C6_AuthFailureStopsGet ==
    (op = "Get" /\ provided.kind \in {"credentialError", "tokenError"}) =>
        /\ pc = "done"
        /\ result.err.msg = "Azure authentication failed"
        /\ result.err.cause.detail = provided.cause
        /\ result.username = "" /\ result.secret = ""
        /\ calls = <<"ValidateAndExtract", "GetAzureAccessToken">>
        /\ response = NoResponse
        /\ exchangeArgs = NoArgs
C6_Witness ==
    /\ GetDone
    /\ provided.kind = "tokenError"
    /\ result.err.cause.msg = "failed to get Azure access token"

\* the token yields no tenant: no JWT, no tid, a tid that is no string or empty
TokenTenantUnavailable(token) ==
    ~token.parses \/ ~token.hasTid \/ ~token.tidIsString \/ token.tid = ""

\* C7: when the token yields no tenant and AZURE_TENANT_ID is empty, Get
\* ends with the missing-tenant error and the exchange is not called
C7_MissingTenantStopsGet ==
    (op = "Get" /\ Called("ExtractTenantIDFromToken")
        /\ TokenTenantUnavailable(azureToken) /\ env = "") =>
            /\ pc = "done"
            /\ result.err.msg = "Unable to determine tenant ID"
            /\ result.username = "" /\ result.secret = ""
            /\ ~Called("ExchangeForACRToken")
            /\ response = NoResponse
C7_Witness ==
    /\ GetDone
    /\ azureToken.id = "tok-numeric-tid"
    /\ env = ""
    /\ result.err.msg = "Unable to determine tenant ID"

\* C8: the exchange gets the token's tenant whenever the token has one,
\* whatever AZURE_TENANT_ID holds, and the environment is then not read;
\* without a token tenant it gets AZURE_TENANT_ID, and Get goes on
C8_TenantFromTokenElseEnvironment ==
    /\ (op = "Get" /\ Called("ExtractTenantIDFromToken")
            /\ ~TokenTenantUnavailable(azureToken)) =>
          /\ tenantID = azureToken.tid
          /\ ~Called("Getenv")
          /\ pc \in {"resolved", "done"}
    /\ (op = "Get" /\ Called("ExtractTenantIDFromToken")
            /\ TokenTenantUnavailable(azureToken) /\ env # "") =>
          /\ tenantID = env
          /\ Called("Getenv")
          /\ pc \in {"resolved", "done"}
          /\ pc = "done" => Called("ExchangeForACRToken")
    /\ Called("ExchangeForACRToken") =>
          exchangeArgs.tenantID =
              IF TokenTenantUnavailable(azureToken) THEN env ELSE azureToken.tid
C8_Witness ==
    /\ GetDone
    /\ Called("ExchangeForACRToken")
    /\ azureToken.tid = "tenant-a"
    /\ env = "tenant-env"
    /\ exchangeArgs.tenantID = "tenant-a"

\* C9: the host Get hands to the exchange, the host of the POST URL and the
\* service field, is the canonical host of the input; tenant and token are
\* the resolved tenant and the acquired token
C9_ExchangeUsesCanonicalHost ==
    Called("ExchangeForACRToken") =>
        /\ ParseAndNormalize(serverURL).err = NoErr
        /\ exchangeArgs.serverURL = ParseAndNormalize(serverURL).host
        /\ ExchangeRequest(exchangeArgs.serverURL, exchangeArgs.tenantID,
                           exchangeArgs.azureToken).url
             = <<"h","t","t","p","s",":","/","/">> \o ParseAndNormalize(serverURL).host
                 \o <<"/","o","a","u","t","h","2","/","e","x","c","h","a","n","g","e">>
        /\ exchangeArgs.tenantID = tenantID
        /\ exchangeArgs.azureToken = azureToken

\* C10: Add and Delete fail with the not-implemented error naming the
\* operation, for every input, and call no collaborator
C10_StoreAndDeleteNotSupported ==
    (op \in {"Add", "Delete"}) =>
        /\ pc = "done"
        /\ result.err.msg = "operation is not implemented by docker-credential-acr"
        /\ result.err.detail = op
        /\ calls = <<>>
        /\ provided = NoAnswer
        /\ response = NoResponse
C10_Witness ==
    /\ op = "Delete"
    /\ serverURL = <<"m","y","r","e","g",".","a","z","u","r","e","c","r",".","i","o">>
    /\ result.err.detail = "Delete"

\* the invocation that is running, as a frame
Running ==
    Frame(pc, op, serverURL, registryName, azureToken, tenantID, calls,
          provided, exchangeArgs, response, result, env)
\* the other invocation is a Get that has returned credentials
OtherGetSucceeded ==
    other.op = "Get" /\ other.pc = "done" /\ other.result.err = NoErr

\* C11: List succeeds with an empty mapping and calls no collaborator,
\* whatever another Get has returned before or beside it
C11_ListAlwaysEmpty ==
    \A f \in {Running, other} :
        f.op = "List" =>
            /\ f.pc = "done"
            /\ f.result.err = NoErr
            /\ f.result.creds = {}
            /\ f.calls = <<>>
            /\ f.provided = NoAnswer
            /\ f.response = NoResponse
C11_Witness ==
    /\ op = "List"
    /\ pc = "done"
    /\ OtherGetSucceeded
    /\ other.result.secret = "rt-123"
    /\ result.creds = {}

EmptyInput == TrimSpace(serverURL) = <<>>

\* C13: an input that is empty, or empty after trimming, fails in
\* ParseAndNormalize and in Get with "registry URL is empty", the first rule
\* applied
C13_EmptyInputFailsFirst ==
    ((NormalizeDone \/ op = "Get") /\ EmptyInput) =>
        /\ pc = "done"
        /\ result.err.msg = "registry URL is empty"
        /\ result.err.detail = ""

\* the four steps of Get, in the order of the code
FourSteps ==
    <<"ValidateAndExtract", "GetAzureAccessToken", "ExtractTenantIDFromToken",
      "ExchangeForACRToken">>
IsStep(c) == c # "Getenv"
\* the steps Get has made so far, the reading of the environment left out
StepsMade == SelectSeq(calls, IsStep)

\* C14: the steps of one Get are a prefix of validate, acquire, resolve,
\* exchange: each is made at most once, in that order, and only when every
\* earlier step succeeded (a tenant found in the environment counts as
\* success); the environment is read at most once, right after the token
C14_StepsArePrefixOfFour ==
    op = "Get" =>
        /\ \E n \in 1..4 : StepsMade = SubSeq(FourSteps, 1, n)
        /\ Len(StepsMade) >= 2 => ValidateAndExtract(serverURL).err = NoErr
        /\ Len(StepsMade) >= 3 => provided.kind = "token"
        /\ Len(StepsMade) = 4 =>
              /\ tenantID # ""
              /\ ~TokenTenantUnavailable(azureToken) \/ env # ""
        /\ Cardinality({i \in 1..Len(calls) : calls[i] = "Getenv"}) <= 1
        /\ \A i \in 1..Len(calls) :
              calls[i] = "Getenv" =>
                  i = 4 /\ calls[3] = "ExtractTenantIDFromToken"
        /\ (pc = "done" /\ result.err # NoErr) =>
              Len(StepsMade) =
                  IF result.err.msg \in {"not an ACR registry",
                                         "invalid ACR registry name"} THEN 1
                  ELSE IF result.err.msg = "Azure authentication failed" THEN 2
                  ELSE IF result.err.msg = "Unable to determine tenant ID" THEN 3
                  ELSE 4
C14_Witness ==
    /\ GetDone
    /\ calls = <<"ValidateAndExtract", "GetAzureAccessToken",
                 "ExtractTenantIDFromToken", "Getenv", "ExchangeForACRToken">>
    /\ response.status = 500
    /\ result.err.msg = "ACR token exchange failed"

\* C15: a Get that has returned gave either the null GUID, a non-empty
\* secret and no error, or an error with empty username and secret; a failed
\* exchange gives "ACR token exchange failed" around its cause, no credential
C15_GetSucceedsOrFailsWhole ==
    GetDone =>
        /\ \/ /\ result.err = NoErr
              /\ result.username = "00000000-0000-0000-0000-000000000000"
              /\ result.secret # ""
           \/ /\ result.err # NoErr
              /\ result.err.msg # ""
              /\ result.username = ""
              /\ result.secret = ""
        /\ (Called("ExchangeForACRToken") /\ ExchangeResult(response).err # NoCause) =>
              /\ result.err.msg = "ACR token exchange failed"
              /\ result.err.cause = ExchangeResult(response).err
              /\ result.err.cause.msg # ""
              /\ result.username = "" /\ result.secret = ""
C15_Witness ==
    /\ GetDone
    /\ response.kind = "transportError"
    /\ result.err.msg = "ACR token exchange failed"
    /\ result.err.cause.msg = "token exchange request failed"
    /\ result.secret = ""

\* C16: when ParseAndNormalize succeeds the host ends with .azurecr.io, the
\* name is 5 to 50 characters of a-z and 0-9, the host is the name followed
\* by the suffix, and the host holds no scheme, port, path, query, fragment,
\* userinfo, upper-case letter or trailing dot
C16_NormalizedHostIsCanonical ==
    (NormalizeDone /\ result.err = NoErr) =>
        /\ HasSuffix(result.host, <<".","a","z","u","r","e","c","r",".","i","o">>)
        /\ Len(result.registryName) >= 5
        /\ Len(result.registryName) <= 50
        /\ \A i \in 1..Len(result.registryName) :
              result.registryName[i] \in LowerSet \cup DigitChars
        /\ result.host = result.registryName \o <<".","a","z","u","r","e","c","r",".","i","o">>
        /\ ~Contains(result.host, <<":","/","/">>)
        /\ \A i \in 1..Len(result.host) :
              result.host[i] \notin ({":", "/", "?", "#", "@", " "} \cup UpperSet)
        /\ result.host[Len(result.host)] # "."
C16_Witness ==
    /\ NormalizeDone
    /\ result.err = NoErr
    /\ serverURL[1] = " "
    /\ HasPrefix(TrimSpace(serverURL), <<"H","T","T","P",":","/","/","M","y","R","e","g">>)
    /\ HasSuffix(TrimSpace(serverURL), <<"I","O",".">>)
    /\ result.host = <<"m","y","r","e","g",".","a","z","u","r","e","c","r",".","i","o">>

\* the endpoint answered 200 with a JSON body whose refresh_token is a
\* non-empty string
GoodAnswer(answer) ==
    /\ answer.kind = "response"
    /\ answer.status = 200
    /\ answer.body.isJSON
    /\ answer.body.field = "string"
    /\ answer.body.value # ""

\* C17: ExchangeForACRToken returns a token only for a 200 answer with a
\* non-empty string refresh_token, and then that string; another status
\* fails with an error holding the status and the raw body; a 200 answer
\* with a body that does not parse or has no or an empty refresh_token fails
C17_ExchangeReturnsTokenOnlyOn200 ==
    Called("ExchangeForACRToken") =>
        /\ (ExchangeResult(response).err = NoCause) <=> GoodAnswer(response)
        /\ GoodAnswer(response) =>
              /\ ExchangeResult(response).token = response.body.value
              /\ result.secret = response.body.value
        /\ ~GoodAnswer(response) =>
              /\ ExchangeResult(response).token = ""
              /\ ExchangeResult(response).err.msg # ""
              /\ result.err.cause = ExchangeResult(response).err
        /\ (response.kind = "response" /\ response.status # 200) =>
              /\ ExchangeResult(response).err.msg
                    = "ACR token exchange failed with status"
              /\ ExchangeResult(response).err.detail = ToString(response.status)
              /\ ExchangeResult(response).err.got = <<response.body.raw>>
        /\ (response.kind = "response" /\ response.status = 200
                /\ (~response.body.isJSON \/ response.body.field = "number")) =>
              ExchangeResult(response).err.msg = "failed to parse ACR token response"
        /\ (response.kind = "response" /\ response.status = 200
                /\ response.body.isJSON
                /\ \/ response.body.field = "absent"
                   \/ response.body.field = "string" /\ response.body.value = "") =>
              ExchangeResult(response).err.msg
                  = "ACR token exchange returned empty refresh_token"
C17_Witness ==
    /\ Called("ExchangeForACRToken")
    /\ response.status = 500
    /\ response.body.value = "rt-from-500"
    /\ result.err.cause.detail = "500"
    /\ result.secret = ""

\* what a Get returns for an input, the identity provider's answer, the
\* environment and the endpoint's answer, and nothing else
OutcomeFor(url, answer, environment, httpAnswer) ==
    IF ValidateAndExtract(url).err # NoErr
    THEN Credentials("", "", ValidateAndExtract(url).err)
    ELSE IF GetAzureAccessToken(answer).err # NoCause
    THEN Credentials("", "", WrapAzureAuthError(GetAzureAccessToken(answer).err))
    ELSE IF MissingTenant(ExtractTenantIDFromToken(answer.token), environment)
    THEN Credentials("", "", NewMissingTenantIDError)
    ELSE IF ExchangeResult(httpAnswer).err # NoCause
    THEN Credentials("", "", WrapACRTokenExchangeError(ExchangeResult(httpAnswer).err))
    ELSE Credentials("00000000-0000-0000-0000-000000000000",
                     ExchangeResult(httpAnswer).token, NoErr)
CallsOf(f, name) == Cardinality({i \in 1..Len(f.calls) : f.calls[i] = name})

\* C18: of two invocations of Get, run one after the other or interleaved,
\* each returns what its own input, environment and collaborators' answers
\* determine; a successful one has called the identity provider and the
\* exchange itself, once each, and hands on its own token and returns the
\* refresh token of its own exchange
C18_GetSharesNoState ==
    \A f \in {Running, other} :
        (f.op = "Get" /\ f.pc = "done") =>
            /\ f.result = OutcomeFor(f.serverURL, f.provided, f.env, f.response)
            /\ f.result.err = NoErr =>
                  /\ CallsOf(f, "GetAzureAccessToken") = 1
                  /\ CallsOf(f, "ExchangeForACRToken") = 1
                  /\ f.provided.kind = "token"
                  /\ f.azureToken = f.provided.token
                  /\ f.exchangeArgs.azureToken = f.provided.token
                  /\ f.response.kind = "response"
                  /\ f.result.secret = f.response.body.value
C18_Witness ==
    /\ GetDone
    /\ result.err = NoErr
    /\ result.secret = "rt-456"
    /\ azureToken.id = "tok-tenant-b"
    /\ OtherGetSucceeded
    /\ other.serverURL = serverURL
    /\ other.result.secret = "rt-123"
    /\ other.azureToken.id = "tok-tenant-a"

\* C19: ExtractTenantIDFromToken returns the tid of the token exactly when
\* the token parses and the tid is there, a string and not empty; in every
\* other case it returns an error, and it never returns an empty tenant
\* without one
C19_TenantOnlyFromNonEmptyStringTid ==
    Called("ExtractTenantIDFromToken") =>
        /\ (ExtractTenantIDFromToken(azureToken).err = NoCause) <=>
              (/\ azureToken.parses
               /\ azureToken.hasTid
               /\ azureToken.tidIsString
               /\ azureToken.tid # "")
        /\ ExtractTenantIDFromToken(azureToken).err = NoCause =>
              /\ ExtractTenantIDFromToken(azureToken).tenantID = azureToken.tid
              /\ tenantID = azureToken.tid
              /\ ~Called("Getenv")
        /\ ExtractTenantIDFromToken(azureToken).err # NoCause =>
              /\ ExtractTenantIDFromToken(azureToken).tenantID = ""
              /\ ExtractTenantIDFromToken(azureToken).err.msg \in
                    {"failed to parse JWT", "tid claim not found in token",
                     "tid claim is not a string", "tid claim is empty"}
              /\ Called("Getenv")
        /\ ExtractTenantIDFromToken(azureToken).tenantID = "" =>
              ExtractTenantIDFromToken(azureToken).err # NoCause
C19_Witness ==
    /\ op = "Get"
    /\ Called("ExtractTenantIDFromToken")
    /\ azureToken.id = "tok-empty-tid"
    /\ ExtractTenantIDFromToken(azureToken).err.msg = "tid claim is empty"
    /\ env = "tenant-env"
    /\ tenantID = "tenant-env"

\* the input has a path: text after the slash that ends the host
HasPath(raw) ==
    IF Contains(raw, SchemeSeparator)
    THEN CutAfter(CutBefore(CutBefore(CutAfter(raw, SchemeSeparator), <<"#">>),
                            <<"?">>), <<"/">>) # <<>>
    ELSE Contains(TrimSuffix(raw, <<"/">>), <<"/">>)

====
